---- MODULE Spec2Model ----
(***************************************************************************)
(* Model of the scheduled ingestion job (app/services/scheduler_service.py)*)
(* and of the Editorial Digest campaign filter (app/api/campaign_filter.py,*)
(* app/config.py), and of the ActiveCampaign analytics: the service       *)
(* (app/services/analytics_service.py) and its read endpoints              *)
(* (app/api/analytics_routes.py).                                          *)
(*                                                                         *)
(* Strings are sequences of one-character strings, so that strip(),        *)
(* lower(), split(",") and the substring test are computed and not assumed.*)
(***************************************************************************)
EXTENDS Integers, Sequences, FiniteSets, TLC

\* ------------------------------------------------------------------ bounds
MaxPillars == 3      \* rows of the "pillars" table
MaxRuns == 1         \* invocations of the job entry points in one behaviour of Spec
MaxJobRuns == 2      \* the same in one behaviour of SchedSpec
MaxInstances == 2    \* AsyncIOScheduler objects constructed in one behaviour
MaxNameLen == 2      \* length of the campaign names drawn for the filter

\* ------------------------------------------------------- program constants
NumItems == 6                 \* num_items passed to the refresh port
OkStatus == 200               \* the only status trigger_n8n_workflow accepts

\* ------------------------------------------------------------ str helpers
White == {" "}

UpperCase ==
    <<"A", "B", "C", "D", "E", "F", "G", "H", "I", "J", "K", "L", "M",
      "N", "O", "P", "Q", "R", "S", "T", "U", "V", "W", "X", "Y", "Z">>

LowerCase ==
    <<"a", "b", "c", "d", "e", "f", "g", "h", "i", "j", "k", "l", "m",
      "n", "o", "p", "q", "r", "s", "t", "u", "v", "w", "x", "y", "z">>

LowerChar(c) ==
    IF \E k \in 1..26 : UpperCase[k] = c
    THEN LowerCase[CHOOSE k \in 1..26 : UpperCase[k] = c]
    ELSE c

\* str.lower()
Lower(s) == [k \in 1..Len(s) |-> LowerChar(s[k])]

RECURSIVE LStrip(_)
LStrip(s) == IF s # <<>> /\ Head(s) \in White THEN LStrip(Tail(s)) ELSE s

RECURSIVE RStrip(_)
RStrip(s) ==
    IF s # <<>> /\ s[Len(s)] \in White THEN RStrip(SubSeq(s, 1, Len(s) - 1)) ELSE s

\* str.strip()
Strip(s) == RStrip(LStrip(s))

\* Python's  p in s
IsSubstring(p, s) ==
    \E k \in 0..(Len(s) - Len(p)) : SubSeq(s, k + 1, k + Len(p)) = p

\* str.replace(" ", "_")
ReplaceSpace(s) == [k \in 1..Len(s) |-> IF s[k] = " " THEN "_" ELSE s[k]]

\* str.split(","): the pieces between commas, empty pieces included
RECURSIVE SplitComma(_, _)
SplitComma(s, cur) ==
    IF s = <<>> THEN <<cur>>
    ELSE IF Head(s) = "," THEN <<cur>> \o SplitComma(Tail(s), <<>>)
    ELSE SplitComma(Tail(s), Append(cur, Head(s)))

RECURSIVE SeqToSet(_)
SeqToSet(s) == IF s = <<>> THEN {} ELSE {Head(s)} \cup SeqToSet(Tail(s))

RECURSIVE SelectStripped(_)
SelectStripped(parts) ==
    IF parts = <<>> THEN <<>>
    ELSE IF Strip(Head(parts)) # <<>>
         THEN <<Strip(Head(parts))>> \o SelectStripped(Tail(parts))
         ELSE SelectStripped(Tail(parts))

\* ------------------------------------------------------------- the store
\* The rows the "pillars" table can hold, in the order select() returns them.
PillarTable ==
    << [id |-> 1, name |-> <<"A", " ", "b">>],
       [id |-> 2, name |-> <<"B">>],
       [id |-> 3, name |-> <<"a", "B">>],
       [id |-> 4, name |-> <<"b", " ">>] >>

NoItems == <<>>

\* What the refresh port can return without raising.
ItemLists == {NoItems, <<"n1">>}

VARIABLES
    configured,   \* settings.SUPABASE_URL and settings.SUPABASE_KEY are both set
    webhook,      \* settings.N8N_NEWS_WEBHOOK is set
    store,        \* table "pillars": sequence of rows
    cron_jobs,    \* table "cron_jobs": sequence of audit records
    clock,        \* datetime.now(), advanced at every read that is stored
    inv,          \* the invocations of the job entry points, one record per slot
    scheduler,    \* global scheduler: 0 is None, else an index into instances
    instances,    \* every AsyncIOScheduler constructed so far
    fIds,         \* settings.EDITORIAL_DIGEST_CAMPAIGN_IDS
    fPattern,     \* settings.EDITORIAL_DIGEST_CAMPAIGN_NAME_PATTERN
    fCid,         \* argument campaign_id
    fName,        \* argument campaign_name
    fResult,      \* value returned by is_editorial_digest_campaign, "none" before the call
    provider,     \* ActiveCampaign as the service sees it: credentials set, campaigns held
    req,          \* the analytics operation called and its arguments
    work,         \* the locals of the analytics handler in progress
    calls,        \* the requests sent to ActiveCampaign so far, in order
    reply         \* what the analytics operation returned, NoReply before that

Slots == DOMAIN inv

jobVars == <<configured, webhook, store, cron_jobs, clock, inv, scheduler, instances>>
filterVars == <<fIds, fPattern, fCid, fName, fResult>>
queryVars == <<provider, req, work, calls, reply>>
vars == <<configured, webhook, store, cron_jobs, clock, inv, scheduler, instances,
          fIds, fPattern, fCid, fName, fResult, provider, req, work, calls, reply>>


\* ------------------------------------------------- update_all_pillars_news
IdleSlot ==
    [kind |-> "none",        \* entry point: "manual", "scheduled" or "trigger"
     sched |-> 0,            \* scheduler instance that fired it (scheduled runs)
     pc |-> "idle",          \* "posting", "fetching", "sleeping", "done", "cancelled"
     post |-> 0,             \* webhook POST: 0 not answered, TransportError, or the status code
     localRuns |-> 0,        \* calls of update_all_pillars_news made by the invocation
     enum |-> "none",        \* outcome of the enumeration
     t0 |-> 0,               \* clock when the run enumerated its pillars
     pillars |-> <<>>,       \* result.data
     i |-> 0,                \* position of the for loop
     success_count |-> 0,
     fail_count |-> 0,
     invoked |-> <<>>,       \* history: arguments of each refresh call
     outcomes |-> <<>>,      \* history: what the refresh port and the store did per pillar
     gaps |-> <<>>,          \* history: per call after the first, did the sleep precede it
     wrote |-> {},           \* history: ids of the rows this run updated
     audit |-> "none",       \* "written" or "rejected" once the insert was attempted
     result |-> "none"]      \* "returned" or "raised"

\* category = pillar_name.lower().replace(" ", "_")
Category(name) == ReplaceSpace(Lower(name))

RefreshArgs(p) == [pillar |-> p.id, category |-> Category(p.name), num_items |-> NumItems]

\* The for loop reaches pillar k: everything up to the await of the refresh call.
Invoke(s, k, slept) ==
    [s EXCEPT !.i = k,
              !.pc = "fetching",
              !.invoked = Append(@, RefreshArgs(s.pillars[k])),
              !.gaps = IF k = 1 THEN @ ELSE Append(@, slept)]

\* A handler that lets the exception through.
OuterHandler_Propagate == "raised"

\* except Exception of the whole function: log and return
OuterHandler == "returned"

\* From the entry of the function to its first await (or to its return).
\* e is what the store answers to the select: "raise" or "ok".
Enter(s, e) ==
    LET s0 == [s EXCEPT !.localRuns = @ + 1, !.t0 = clock] IN
    IF ~configured
    THEN [s0 EXCEPT !.enum = "no_creds", !.pc = "done", !.result = "returned"]
    ELSE IF e = "raise"
    THEN [s0 EXCEPT !.enum = "raise", !.pc = "done", !.result = OuterHandler]
    ELSE IF store = <<>>
    THEN [s0 EXCEPT !.enum = "empty", !.pc = "done", !.result = "returned"]
    ELSE Invoke([s0 EXCEPT !.enum = "ok",
                           !.pillars = [k \in 1..Len(store) |->
                                          [id |-> store[k].id, name |-> store[k].name]]],
                1, FALSE)

\* news_data: the items converted field by field
NewsData(items) == [k \in 1..Len(items) |-> items[k]]

\* supabase.table("pillars").update({...}).eq("id", pillar_id).execute()
UpdatePillar(st, pillar_id, news_data, now) ==
    [k \in 1..Len(st) |->
        IF st[k].id = pillar_id
        THEN [st[k] EXCEPT !.news_items = news_data, !.last_updated = now]
        ELSE st[k]]

\* success_count += 1
Succeeded(s) == [s EXCEPT !.success_count = @ + 1]

\* A failure that no counter records.
Failed_Uncounted(s) == s

\* fail_count += 1
Failed(s) == [s EXCEPT !.fail_count = @ + 1]

\* An empty result counted with the successes.
ElseBranch_AsSuccess(s) == Succeeded(s)

\* else: "No news found", fail_count += 1
ElseBranch(s) == Failed(s)

\* A handler that gives up the remaining pillars.
ExceptBranch_Abort(s) == [Failed(s) EXCEPT !.i = Len(s.pillars)]

\* except Exception inside the loop: fail_count += 1, the loop goes on
ExceptBranch(s) == Failed(s)

\* "status": "success" if fail_count == 0 else "partial"
AuditStatus(success_count, fail_count) ==
    IF fail_count = 0 THEN "success" ELSE "partial"

AuditRecord(r, s) ==
    [job_name |-> "daily-news-update",
     status |-> AuditStatus(s.success_count, s.fail_count),
     results |-> [total_pillars |-> Len(s.pillars),
                  success |-> s.success_count,
                  failed |-> s.fail_count],
     run |-> r]                 \* history: the invocation that wrote it

\* After pillar s.i was counted: the next iteration, or the end of the loop
\* with the insert into cron_jobs (ins: the store accepts the insert).
Proceed(r, s, slept, ins) ==
    IF s.i < Len(s.pillars)
    THEN /\ inv' = [inv EXCEPT ![r] = Invoke(s, s.i + 1, slept)]
         /\ cron_jobs' = cron_jobs
    ELSE /\ inv' = [inv EXCEPT ![r] =
                      [s EXCEPT !.pc = "done",
                                !.audit = IF ins THEN "written" ELSE "rejected",
                                !.result = "returned"]]
         /\ cron_jobs' = IF ins THEN Append(cron_jobs, AuditRecord(r, s)) ELSE cron_jobs

Free(r) == inv[r].pc = "idle" /\ (IF r = 1 THEN TRUE ELSE inv[r - 1].pc # "idle")

InFlight(r) == inv[r].pc \in {"fetching", "sleeping"}

\* A test that lets every result through.
HasNews_Always(news_items) == TRUE

\* if news_items:
HasNews(news_items) == news_items # NoItems

\* What the environment did to the pillar: the refresh raised, returned
\* nothing, or returned items that the store then refused or accepted.
Outcome(raised, items, upd) ==
    IF raised THEN "raise"
    ELSE IF items = NoItems THEN "empty"
    ELSE IF ~upd THEN "store_raise"
    ELSE "ok"

\* The refresh call of run r returns: items (possibly none) or an exception.
\* upd: the store accepts the update of the row.
RefreshReturns(r) ==
    /\ inv[r].pc = "fetching"
    /\ \E raised \in BOOLEAN, items \in ItemLists, upd \in BOOLEAN, ins \in BOOLEAN :
         LET s == [inv[r] EXCEPT !.outcomes = Append(@, Outcome(raised, items, upd))] IN
         IF raised
         THEN /\ Proceed(r, ExceptBranch(s), FALSE, ins)
              /\ UNCHANGED <<store, clock>>
         ELSE IF HasNews(items)
         THEN IF upd
              THEN /\ store' = UpdatePillar(store, s.pillars[s.i].id, NewsData(items), clock)
                   /\ clock' = clock + 1
                   /\ inv' = [inv EXCEPT ![r] =
                                [Succeeded(s) EXCEPT !.pc = "sleeping",
                                                     !.wrote = @ \cup {s.pillars[s.i].id}]]
                   /\ cron_jobs' = cron_jobs
              ELSE /\ Proceed(r, ExceptBranch(s), FALSE, ins)
                   /\ UNCHANGED <<store, clock>>
         ELSE /\ inv' = [inv EXCEPT ![r] = [ElseBranch(s) EXCEPT !.pc = "sleeping"]]
              /\ UNCHANGED <<store, clock, cron_jobs>>
    /\ UNCHANGED <<configured, webhook, scheduler, instances>>
    /\ UNCHANGED <<filterVars, queryVars>>

\* await asyncio.sleep(2) returns
SleepElapses(r) ==
    /\ inv[r].pc = "sleeping"
    /\ \E ins \in BOOLEAN : Proceed(r, inv[r], TRUE, ins)
    /\ UNCHANGED <<configured, webhook, store, clock, scheduler, instances>>
    /\ UNCHANGED <<filterVars, queryVars>>

\* Manual trigger.
run_news_update_now(r) ==
    /\ Free(r)
    /\ \E e \in {"raise", "ok"} :
         inv' = [inv EXCEPT ![r] = Enter([inv[r] EXCEPT !.kind = "manual"], e)]
    /\ UNCHANGED <<configured, webhook, store, cron_jobs, clock, scheduler, instances>>
    /\ UNCHANGED <<filterVars, queryVars>>

\* The cron trigger of job "daily_news_update" fires.  add_job leaves
\* max_instances at its default of 1: the scheduler skips the firing while an
\* instance of the job it started is still running.
JobFires(r) ==
    /\ Free(r)
    /\ scheduler # 0
    /\ instances[scheduler].running
    /\ \A q \in Slots : ~(inv[q].kind = "scheduled" /\ inv[q].sched = scheduler /\ InFlight(q))
    /\ \E e \in {"raise", "ok"} :
         inv' = [inv EXCEPT ![r] =
                   Enter([inv[r] EXCEPT !.kind = "scheduled", !.sched = scheduler], e)]
    /\ UNCHANGED <<configured, webhook, store, cron_jobs, clock, scheduler, instances>>
    /\ UNCHANGED <<filterVars, queryVars>>

\* ----------------------------------------------------- trigger_n8n_workflow
TransportError == -1     \* client.post raised instead of answering

\* What the POST can come back with.
Responses == {200, 204, 500, TransportError}

\* Any answer at all taken for a successful trigger.
Delegated_AnyAnswer(resp) == resp # TransportError

\* response.status_code == 200
Delegated(resp) == resp = OkStatus

trigger_n8n_workflow(r) ==
    /\ Free(r)
    /\ IF ~webhook
       THEN \E e \in {"raise", "ok"} :
              inv' = [inv EXCEPT ![r] = Enter([inv[r] EXCEPT !.kind = "trigger"], e)]
       ELSE inv' = [inv EXCEPT ![r] = [inv[r] EXCEPT !.kind = "trigger", !.pc = "posting"]]
    /\ UNCHANGED <<configured, webhook, store, cron_jobs, clock, scheduler, instances>>
    /\ UNCHANGED <<filterVars, queryVars>>

\* The fallback of trigger_n8n_workflow.  After a transport error it is the
\* call in the except handler.  After an answer other than 200 it is the call
\* inside the try: an exception leaving that call reaches the same handler,
\* which calls update_all_pillars_news once more (e2: what the store answers
\* to the second select).
Fallback(s, resp, e, e2) ==
    LET first == Enter(s, e) IN
    IF resp # TransportError /\ first.result = "raised"
    THEN Enter(first, e2)
    ELSE first

\* await client.post(...) returns a response or raises
PostReturns(r) ==
    /\ inv[r].pc = "posting"
    /\ \E resp \in Responses, e \in {"raise", "ok"}, e2 \in {"raise", "ok"} :
         LET s == [inv[r] EXCEPT !.post = resp] IN
         IF Delegated(resp)
         THEN inv' = [inv EXCEPT ![r] = [s EXCEPT !.pc = "done", !.result = "returned"]]
         ELSE inv' = [inv EXCEPT ![r] = Fallback(s, resp, e, e2)]
    /\ UNCHANGED <<configured, webhook, store, cron_jobs, clock, scheduler, instances>>
    /\ UNCHANGED <<filterVars, queryVars>>


\* ------------------------------------------------------------ the scheduler
JobId == "daily_news_update"

\* scheduler.add_job(..., id="daily_news_update", replace_existing=True)
AddJob(jobs, id) == IF id \in SeqToSet(jobs) THEN jobs ELSE Append(jobs, id)

\* start_scheduler without its guard.
AlreadyStarted_Unchecked == FALSE

\* if scheduler is not None: return scheduler
AlreadyStarted == scheduler # 0

start_scheduler ==
    /\ IF AlreadyStarted
       THEN UNCHANGED <<scheduler, instances>>
       ELSE /\ Len(instances) < MaxInstances
            /\ instances' = Append(instances, [running |-> TRUE, jobs |-> AddJob(<<>>, JobId)])
            /\ scheduler' = Len(instances) + 1
    /\ UNCHANGED <<configured, webhook, store, cron_jobs, clock, inv>>
    /\ UNCHANGED <<filterVars, queryVars>>

\* scheduler.shutdown(wait=False): the call returns at once.  Whether the
\* executor cancels the job coroutine it is running depends on the library;
\* a cancelled run is abandoned at its await (CancelledError is not an
\* Exception, no handler of the run catches it).
Shutdown(cancel) ==
    [r \in Slots |->
        IF cancel /\ inv[r].kind = "scheduled" /\ inv[r].sched = scheduler /\ InFlight(r)
        THEN [inv[r] EXCEPT !.pc = "cancelled"]
        ELSE inv[r]]

stop_scheduler ==
    /\ IF scheduler # 0
       THEN /\ \E cancel \in BOOLEAN : inv' = Shutdown(cancel)
            /\ instances' = [instances EXCEPT ![scheduler].running = FALSE]
            /\ scheduler' = 0
       ELSE UNCHANGED <<inv, instances, scheduler>>
    /\ UNCHANGED <<configured, webhook, store, cron_jobs, clock>>
    /\ UNCHANGED <<filterVars, queryVars>>

\* The response of the status operation in the current state.
get_scheduler_status ==
    IF scheduler = 0
    THEN [running |-> FALSE, jobs |-> <<>>]
    ELSE [running |-> instances[scheduler].running, jobs |-> instances[scheduler].jobs]

\* ------------------------------------------------------- the specification
InitStore(n) ==
    [k \in 1..n |-> [id |-> PillarTable[k].id, name |-> PillarTable[k].name,
                     news_items |-> <<"n0">>, last_updated |-> 0]]

FilterIdle ==
    /\ fIds = <<>>
    /\ fPattern = <<>>
    /\ fCid = <<>>
    /\ fName = <<>>
    /\ fResult = "none"

NoReply == [kind |-> "none"]

\* No analytics operation is called.
QueryIdle ==
    /\ provider = [configured |-> FALSE, campaigns |-> <<>>]
    /\ req = [op |-> "none"]
    /\ work = [pc |-> "idle"]
    /\ calls = <<>>
    /\ reply = NoReply

\* The module is imported: no scheduler, nothing running.
Init ==
    /\ configured \in BOOLEAN
    /\ webhook \in BOOLEAN
    /\ \E n \in 0..MaxPillars : store = InitStore(n)
    /\ cron_jobs = <<>>
    /\ clock = 1
    /\ inv = [r \in 1..MaxRuns |-> IdleSlot]
    /\ scheduler = 0
    /\ instances = <<>>
    /\ FilterIdle
    /\ QueryIdle

\* The entry points called directly: the manual trigger and the webhook trigger.
Next ==
    \/ \E r \in Slots : run_news_update_now(r)
    \/ \E r \in Slots : trigger_n8n_workflow(r)
    \/ \E r \in Slots : PostReturns(r)
    \/ \E r \in Slots : RefreshReturns(r)
    \/ \E r \in Slots : SleepElapses(r)

Spec == Init /\ [][Next]_vars

\* The scheduler with its cron job, next to the manual trigger, over one pillar.
SchedInit ==
    /\ configured \in BOOLEAN
    /\ webhook = FALSE
    /\ store = InitStore(1)
    /\ cron_jobs = <<>>
    /\ clock = 1
    /\ inv = [r \in 1..MaxJobRuns |-> IdleSlot]
    /\ scheduler = 0
    /\ instances = <<>>
    /\ FilterIdle
    /\ QueryIdle

SchedNext ==
    \/ start_scheduler
    \/ stop_scheduler
    \/ \E r \in Slots : JobFires(r)
    \/ \E r \in Slots : run_news_update_now(r)
    \/ \E r \in Slots : RefreshReturns(r)
    \/ \E r \in Slots : SleepElapses(r)

SchedSpec == SchedInit /\ [][SchedNext]_vars


\* --------------------------------------------------------- campaign filter
\* Settings.editorial_digest_campaign_ids: the comma-separated setting as a list
editorial_digest_campaign_ids(raw) ==
    IF raw = <<>> THEN <<>> ELSE SelectStripped(SplitComma(raw, <<>>))

\* The predicate comparing the campaign id as given, without strip().
is_editorial_digest_campaign_Unstripped(campaign_id, campaign_name, raw_ids, name_pattern) ==
    LET allowed_ids == editorial_digest_campaign_ids(raw_ids)
        allowed_ids_set == {Strip(aid) : aid \in SeqToSet(allowed_ids)}
        pattern_lower == Strip(Lower(name_pattern))
        name_lower == Lower(campaign_name)
    IN  IF allowed_ids = <<>> /\ name_pattern = <<>> THEN TRUE
        ELSE IF allowed_ids # <<>> /\ campaign_id \in allowed_ids_set THEN TRUE
        ELSE IF name_pattern # <<>> /\ campaign_name # <<>>
                /\ IsSubstring(pattern_lower, name_lower) THEN TRUE
        ELSE FALSE

is_editorial_digest_campaign(campaign_id, campaign_name, raw_ids, name_pattern) ==
    LET allowed_ids == editorial_digest_campaign_ids(raw_ids)
        allowed_ids_set == {Strip(aid) : aid \in SeqToSet(allowed_ids)}
        campaign_id_normalized == Strip(campaign_id)
        pattern_lower == Strip(Lower(name_pattern))
        name_lower == Lower(campaign_name)
    IN  IF allowed_ids = <<>> /\ name_pattern = <<>> THEN TRUE
        ELSE IF allowed_ids # <<>> /\ campaign_id_normalized \in allowed_ids_set THEN TRUE
        ELSE IF name_pattern # <<>> /\ campaign_name # <<>>
                /\ IsSubstring(pattern_lower, name_lower) THEN TRUE
        ELSE FALSE

\* Values of EDITORIAL_DIGEST_CAMPAIGN_IDS
RawIdSettings ==
    { <<>>, <<"1">>, <<"1", ",", "2">>, <<" ", "1", ",", " ">>, <<",">>, <<"1", ",", "1">> }

\* Values of EDITORIAL_DIGEST_CAMPAIGN_NAME_PATTERN
PatternSettings ==
    { <<>>, <<"a">>, <<"A", "b">>, <<" ", "a">>, <<"b", " ">>, <<" ">> }

CampaignIds == { <<>>, <<"1">>, <<" ", "1", " ">>, <<"2">>, <<"3">> }

NameChars == {"a", "A", "b", " "}

CampaignNames == UNION { [1..n -> NameChars] : n \in 0..MaxNameLen }

FilterInit ==
    /\ configured = FALSE
    /\ webhook = FALSE
    /\ store = <<>>
    /\ cron_jobs = <<>>
    /\ clock = 1
    /\ inv = <<>>
    /\ scheduler = 0
    /\ instances = <<>>
    /\ fIds \in RawIdSettings
    /\ fPattern \in PatternSettings
    /\ fCid \in CampaignIds
    /\ fName \in CampaignNames
    /\ fResult = "none"
    /\ QueryIdle

\* One call of the predicate on the drawn configuration and campaign.
Accepts ==
    /\ fResult = "none"
    /\ fResult' = IF is_editorial_digest_campaign(fCid, fName, fIds, fPattern)
                  THEN "True" ELSE "False"
    /\ UNCHANGED <<fIds, fPattern, fCid, fName>>
    /\ UNCHANGED <<jobVars, queryVars>>

FilterNext == Accepts

FilterSpec == FilterInit /\ [][FilterNext]_vars


\* ------------------------------------------------------- analytics service
MaxCount == 2        \* largest counter value drawn for a campaign

\* A value of the provider's JSON: an integer, a string of digits, null (or
\* the key absent, dict.get gives None for both), "", a non-numeric string.
IntVal(v) == [t |-> "int", v |-> v]
StrVal(v) == [t |-> "str", v |-> v]
NoneVal == [t |-> "none", v |-> 0]
EmptyVal == [t |-> "empty", v |-> 0]
BadVal == [t |-> "bad", v |-> 0]

\* Python truthiness of such a value
Truthy(x) == (x.t = "int" /\ x.v # 0) \/ x.t \in {"str", "bad"}

\* int(x or 0): ok is FALSE where int() raises ValueError
IntOrZero(x) ==
    IF ~Truthy(x) THEN [ok |-> TRUE, v |-> 0]
    ELSE IF x.t = "bad" THEN [ok |-> FALSE, v |-> 0]
    ELSE [ok |-> TRUE, v |-> x.v]

\* round(q / d, 0) for q >= 0 and d > 0, ties to the even neighbour
RoundHalfEven(q, d) ==
    LET f == q \div d
        r == q % d
    IN  IF 2 * r < d THEN f
        ELSE IF 2 * r > d THEN f + 1
        ELSE IF f % 2 = 0 THEN f ELSE f + 1

\* A rate is held in hundredths of a percent: 3333 is 33.33.
Returned(value) == [raised |-> FALSE, value |-> value]

\* _calc_rate with the exception leaving the function.
CalcRateExcept_Raise == [raised |-> TRUE, value |-> 0]

\* except: return 0.0
CalcRateExcept == Returned(0)

calc_rate(numerator, denominator) ==
    LET num == IntOrZero(numerator)
        denom == IntOrZero(denominator)
    IN  IF ~num.ok \/ ~denom.ok THEN CalcRateExcept
        ELSE IF denom.v = 0 THEN Returned(0)
        ELSE Returned(RoundHalfEven(num.v * 100 * 100, denom.v))

\* The counters the rates are computed from.
RateCounters ==
    {"send_amt", "uniqueopens", "uniquelinkclicks", "hardbounces",
     "softbounces", "unsubscribes", "uniqueforwards"}

\* _get_status_label
StatusLabel(status) ==
    CASE status = "0" -> "Draft"
      [] status = "1" -> "Scheduled"
      [] status = "2" -> "Sending"
      [] status = "3" -> "Paused"
      [] status = "4" -> "Stopped"
      [] status = "5" -> "Completed"
      [] OTHER -> "Unknown"

\* The entry get_campaigns builds for one campaign of the provider's page;
\* raised where an int() outside _calc_rate raises ValueError.
Normalize(campaign) ==
    LET n == [k \in RateCounters |-> IntOrZero(campaign[k])]
    IN  IF \E k \in RateCounters : ~n[k].ok
        THEN [raised |-> TRUE]
        ELSE [raised |-> FALSE,
              id |-> campaign.id,
              name |-> campaign.name,
              status |-> StatusLabel(campaign.status),
              sendDate |-> campaign.sdate,
              totalSends |-> n["send_amt"].v,
              uniqueOpens |-> n["uniqueopens"].v,
              uniqueClicks |-> n["uniquelinkclicks"].v,
              hardBounces |-> n["hardbounces"].v,
              softBounces |-> n["softbounces"].v,
              unsubscribes |-> n["unsubscribes"].v,
              uniqueForwards |-> n["uniqueforwards"].v,
              openRate |-> calc_rate(campaign.uniqueopens, campaign.send_amt).value,
              clickRate |-> calc_rate(campaign.uniquelinkclicks, campaign.send_amt).value,
              clickToOpenRate |->
                  calc_rate(campaign.uniquelinkclicks, campaign.uniqueopens).value,
              bounceRate |->
                  calc_rate(IntVal(n["hardbounces"].v + n["softbounces"].v),
                            campaign.send_amt).value,
              unsubscribeRate |-> calc_rate(campaign.unsubscribes, campaign.send_amt).value,
              forwardRate |-> calc_rate(campaign.uniqueforwards, campaign.send_amt).value]

RateNames ==
    {"openRate", "clickRate", "clickToOpenRate", "bounceRate", "unsubscribeRate",
     "forwardRate"}


\* ------------------------------------------------------- filter_campaigns
MaxListLen == 2      \* campaigns in the list handed to filter_campaigns

\* The body of the loop of filter_campaigns: is the campaign appended.
\* pattern_lower is tested after strip(): "" is falsy.
FilterKeeps(campaign, allowed_ids_set, name_pattern, pattern_lower) ==
    LET campaign_id == Strip(campaign.id) IN
    IF allowed_ids_set # {} /\ campaign_id \in allowed_ids_set THEN TRUE
    ELSE /\ pattern_lower # <<>>
         /\ campaign.name # <<>>
         /\ IsSubstring(pattern_lower, Lower(campaign.name))

filter_campaigns(campaigns, raw_ids, name_pattern) ==
    LET allowed_ids == editorial_digest_campaign_ids(raw_ids)
        allowed_ids_set == {Strip(aid) : aid \in SeqToSet(allowed_ids)}
        pattern_lower == IF name_pattern # <<>> THEN Strip(Lower(name_pattern)) ELSE <<>>
        Keeps(campaign) == FilterKeeps(campaign, allowed_ids_set, name_pattern, pattern_lower)
    IN  IF allowed_ids = <<>> /\ name_pattern = <<>> THEN campaigns
        ELSE SelectSeq(campaigns, Keeps)

\* Campaigns handed to the filter: 'id' and 'name'
ListedIds == { <<"1">>, <<" ", "1">>, <<"3">> }

ListedNames == { <<>>, <<"a">>, <<"A", "b">> }

ListedCampaigns == [id : ListedIds, name : ListedNames]

CampaignLists == UNION { [1..n -> ListedCampaigns] : n \in 0..MaxListLen }

\* ------------------------------------------- the analytics operations
\* The ingestion job does not run while an analytics operation is examined.
JobIdle ==
    /\ configured = FALSE
    /\ webhook = FALSE
    /\ store = <<>>
    /\ cron_jobs = <<>>
    /\ clock = 1
    /\ inv = <<>>
    /\ scheduler = 0
    /\ instances = <<>>

NoProvider == [configured |-> FALSE, campaigns |-> <<>>]

\* Values a counter is drawn from for _calc_rate
CounterValues ==
    {IntVal(v) : v \in 0..MaxCount} \cup {StrVal(v) : v \in 0..MaxCount}
        \cup {NoneVal, EmptyVal, BadVal}

FilterCampaignsCall ==
    /\ fIds \in RawIdSettings
    /\ fPattern \in PatternSettings
    /\ provider = NoProvider
    /\ \E campaigns \in CampaignLists :
         req = [op |-> "filter_campaigns", campaigns |-> campaigns]

CalcRateCall ==
    /\ fIds = <<>>
    /\ fPattern = <<>>
    /\ provider = NoProvider
    /\ \E numerator \in CounterValues, denominator \in CounterValues :
         req = [op |-> "_calc_rate", numerator |-> numerator, denominator |-> denominator]

\* filter_campaigns(campaigns) under the drawn settings
FilterCampaigns ==
    /\ req.op = "filter_campaigns"
    /\ reply = NoReply
    /\ reply' = [kind |-> "value", value |-> filter_campaigns(req.campaigns, fIds, fPattern)]
    /\ UNCHANGED <<jobVars, filterVars, provider, req, work, calls>>

\* _calc_rate(numerator, denominator)
CalcRate ==
    /\ req.op = "_calc_rate"
    /\ reply = NoReply
    /\ reply' = [kind |-> "value", value |-> calc_rate(req.numerator, req.denominator)]
    /\ UNCHANGED <<jobVars, filterVars, provider, req, work, calls>>


\* ------------------------------------------------- the provider's answers
MaxCampaigns == 2    \* campaigns the provider holds

Digit(d) == <<"0", "1", "2", "3", "4", "5", "6", "7", "8", "9">>[d + 1]

\* str() of a three-digit status code
Digits(n) == <<Digit(n \div 100), Digit((n \div 10) % 10), Digit(n % 10)>>


\* The fixed texts of the messages, shortened where they are long
Text ==
    [
      HTTP |->
          <<"H", "T", "T", "P", " ">>,
      GetCampaign |->
          <<"G", "e", "t", " ", "c", "a", "m", "p", "a", "i", "g", "n">>,
      GetCampaigns |->
          <<"G", "e", "t", " ", "c", "a", "m", "p", "a", "i", "g", "n", "s">>,
      GetCampaignLinks |->
          <<"G", "e", "t", " ", "c", "a", "m", "p", "a", "i", "g", "n", " ",
           "l", "i", "n", "k", "s">>,
      Failed |->
          <<" ", "f", "a", "i", "l", "e", "d", ":", " ">>,
      NoResult |->
          <<"N", "o", " ", "R", "e", "s", "u", "l", "t">>,
      Timeout |->
          <<"t", "i", "m", "e", "d", " ", "o", "u", "t">>,
      AuthFailed |->
          <<"a", "u", "t", "h", "e", "n", "t", "i", "c", "a", "t", "i", "o",
           "n", " ", "f", "a", "i", "l", "e", "d", ":", " ">>,
      ConnectFailed |->
          <<"F", "a", "i", "l", "e", "d", " ", "t", "o", " ", "c", "o", "n",
           "n", "e", "c", "t", ":", " ">>,
      InvalidLiteral |->
          <<"i", "n", "v", "a", "l", "i", "d", " ", "l", "i", "t", "e", "r",
           "a", "l">>,
      MustBeConfigured |->
          <<"m", "u", "s", "t", " ", "b", "e", " ", "c", "o", "n", "f", "i",
           "g", "u", "r", "e", "d">>,
      NotFound |->
          <<"n", "o", "t", " ", "f", "o", "u", "n", "d">>,
      Unauthorized |->
          <<"u", "n", "a", "u", "t", "h", "o", "r", "i", "z", "e", "d">>,
      Unknown |->
          <<"U", "n", "k", "n", "o", "w", "n">>,
      NotFoundOpen |->
          <<"[", "N", "O", "T", " ", "F", "O", "U", "N", "D", ":", " ">> ]

\* f"{operation_name} failed: {error_msg} (HTTP {response.status_code})"
ErrorText(operation_name, error_msg, status) ==
    operation_name \o Text.Failed \o error_msg \o <<" ", "(">> \o Text.HTTP
        \o Digits(status) \o <<")">>

NotFoundStatus == 404
UnauthorizedStatus == 401
ServerErrorStatus == 500

\* What a request to the provider comes back with: a status and the message
\* of the body ("" where the body has none), or no response at all.
NoFault == [transport |-> FALSE, status |-> OkStatus, msg |-> <<>>]


Faults ==
    { [transport |-> FALSE, status |-> UnauthorizedStatus, msg |-> <<>>],
      [transport |-> FALSE, status |-> ServerErrorStatus, msg |-> <<"o", "o", "p", "s">>],
      [transport |-> FALSE, status |-> ServerErrorStatus, msg |-> Text.NotFound],
      [transport |-> TRUE, status |-> 0, msg |-> Text.Timeout] }

Answers == {NoFault} \cup Faults

\* The provider's answer for an id it does not hold.
NotFoundAnswer == [transport |-> FALSE, status |-> NotFoundStatus, msg |-> Text.NoResult]

Raise(type, text) == [raised |-> TRUE, type |-> type, text |-> text]

\* _handle_response, and the exception of the HTTP client where there is no
\* response: the exception raised, or raised FALSE for a response below 400.
HandleResponse(answer, operation_name) ==
    IF answer.transport THEN Raise("Exception", answer.msg)
    ELSE IF answer.status >= 400
    THEN LET error_msg == IF answer.msg # <<>> THEN answer.msg
                          ELSE Text.HTTP \o Digits(answer.status)
         IN  Raise("Exception", ErrorText(operation_name, error_msg, answer.status))
    ELSE [raised |-> FALSE]

\* GET /api/3/campaigns?limit=&offset= on the provider's collection
Page(limit, offset) ==
    LET n == Len(provider.campaigns)
        last == IF offset + limit < n THEN offset + limit ELSE n
    IN  SubSeq(provider.campaigns, offset + 1, last)

Holds(campaign_id) == \E k \in 1..Len(provider.campaigns) : provider.campaigns[k].id = campaign_id

Held(campaign_id) ==
    provider.campaigns[CHOOSE k \in 1..Len(provider.campaigns) :
                           provider.campaigns[k].id = campaign_id]

\* GET /api/3/campaigns/{campaign_id}: the fault drawn, or 404 for an unknown id
AnswerById(campaign_id, answer) ==
    IF answer = NoFault /\ ~Holds(campaign_id) THEN NotFoundAnswer ELSE answer


RECURSIVE NormalizeAll(_)
NormalizeAll(page) ==
    IF page = <<>> THEN <<>> ELSE <<Normalize(Head(page))>> \o NormalizeAll(Tail(page))

\* AnalyticsService.get_campaigns: the list returned, or the ValueError raised
ServiceGetCampaigns(limit, offset, answer) ==
    LET handled == HandleResponse(answer, Text.GetCampaigns)
        entries == NormalizeAll(Page(limit, offset))
    IN  IF handled.raised
        THEN IF \/ IsSubstring(<<"4", "0", "1">>, handled.text)
                \/ IsSubstring(<<"4", "0", "3">>, handled.text)
                \/ IsSubstring(<<"U", "n", "a", "u", "t", "h", "o", "r", "i", "z", "e", "d">>,
                               handled.text)
             THEN Raise("ValueError", Text.AuthFailed \o handled.text)
             ELSE Raise("ValueError", Text.ConnectFailed \o handled.text)
        ELSE IF \E k \in 1..Len(entries) : entries[k].raised
        THEN Raise("ValueError", Text.InvalidLiteral)
        ELSE [raised |-> FALSE, value |-> entries]

\* AnalyticsService.get_campaign_by_id: the campaign returned, or the exception
ServiceGetCampaignById(campaign_id, answer) ==
    LET handled == HandleResponse(AnswerById(campaign_id, answer), Text.GetCampaign)
        entry == Normalize(Held(campaign_id))
    IN  IF handled.raised THEN handled
        ELSE IF entry.raised THEN Raise("ValueError", Text.InvalidLiteral)
        ELSE [raised |-> FALSE, value |-> entry]


\* ------------------------------------------------ what the provider holds
NoCounters == [k \in RateCounters |-> NoneVal]

\* A campaign of the provider's JSON
RawCampaign(id, name, sdate, counters) ==
    [id |-> id, name |-> name, sdate |-> sdate, status |-> "5"] @@ counters

\* Values of sdate: compared as strings, "10" sorts before "2"
SendDates == { <<>>, <<"1", "0">>, <<"2">> }

HeldNames == << <<"a">>, <<"A", "b">>, <<"b">>, <<>> >>

\* The provider's collections: campaign k has id str(k)
ProviderLists ==
    UNION { { [k \in 1..n |-> RawCampaign(<<Digit(k)>>, HeldNames[k], sdate[k], NoCounters)] :
                sdate \in [1..n -> SendDates] } : n \in 0..MaxCampaigns }

Providers ==
    {NoProvider} \cup {[configured |-> TRUE, campaigns |-> c] : c \in ProviderLists}

\* The requests the service sends
ListRequest(limit, offset) ==
    [endpoint |-> "campaigns", id |-> <<>>, limit |-> limit, offset |-> offset]

ByIdRequest(campaign_id) ==
    [endpoint |-> "campaigns/{id}", id |-> campaign_id, limit |-> 0, offset |-> 0]

LinksRequest(campaign_id) ==
    [endpoint |-> "campaigns/{id}/links", id |-> campaign_id, limit |-> 0, offset |-> 0]

DefaultLimit == 100

MaxLimit == 2        \* largest page limit a caller asks for, below the cap

MaxPageSize == 500

\* limit and offset of the callers
Limits == 1..MaxLimit \cup {MaxPageSize + 1}

Offsets == 0..1

\* ------------------------------------------ AnalyticsService.get_campaigns
IntCounters == {IntVal(v) : v \in 0..MaxCount}

ServiceGetCampaignsCall ==
    /\ fIds = <<>>
    /\ fPattern = <<>>
    /\ \E counters \in [RateCounters -> IntCounters] :
         provider = [configured |-> TRUE,
                     campaigns |-> <<RawCampaign(<<"1">>, <<"a">>, <<>>, counters)>>]
    /\ req = [op |-> "AnalyticsService.get_campaigns", limit |-> DefaultLimit, offset |-> 0]

\* Pages of two campaigns in which one counter of one campaign is not a number
MalformedPages ==
    { [k \in 1..2 |->
         RawCampaign(<<Digit(k)>>, HeldNames[k], <<>>,
                     IF k = bad THEN [NoCounters EXCEPT ![counter] = BadVal] ELSE NoCounters)] :
      bad \in 1..2, counter \in RateCounters }

\* get_campaigns, called by itself or under GET /campaigns, on such a page
MalformedPageCall ==
    /\ fIds = <<>>
    /\ fPattern \in {<<>>, <<"a">>}
    /\ provider \in {[configured |-> TRUE, campaigns |-> c] : c \in MalformedPages}
    /\ \E op \in {"AnalyticsService.get_campaigns", "GET /campaigns"} :
         req = [op |-> op, limit |-> DefaultLimit, offset |-> 0]

\* The method called by itself: the request is sent
ServiceGetCampaignsSends ==
    /\ req.op = "AnalyticsService.get_campaigns"
    /\ work.pc = "idle"
    /\ work' = [pc |-> "page"]
    /\ calls' = Append(calls, ListRequest(req.limit, req.offset))
    /\ UNCHANGED <<jobVars, filterVars, provider, req, reply>>

ServiceGetCampaignsReturns ==
    /\ req.op = "AnalyticsService.get_campaigns"
    /\ work.pc = "page"
    /\ \E answer \in Answers :
         /\ reply' = [kind |-> "value",
                         value |-> ServiceGetCampaigns(req.limit, req.offset, answer)]
         /\ work' = [pc |-> "done", answer |-> answer]    \* history: what came back
    /\ UNCHANGED <<jobVars, filterVars, provider, req, calls>>


\* ------------------------------------------------------ GET /campaigns
\* An f-string: its text with its placeholders, and the strings filled in
Detail(template, args) == [template |-> template, args |-> args]

NoDetail == Detail("", <<>>)

HttpReply(status, detail, body) ==
    [kind |-> "http", status |-> status, detail |-> detail, body |-> body]

NoBody == [none |-> TRUE]

UnavailableStatus == 503

\* except ValueError: 503 "Analytics service not configured: {str(e)}"
NotConfigured(text) ==
    HttpReply(UnavailableStatus, Detail("Analytics service not configured: {}", <<text>>),
              NoBody)


SummaryFields ==
    {"id", "name", "status", "sendDate", "totalSends", "uniqueOpens", "uniqueClicks", "hardBounces",
     "softBounces", "unsubscribes", "uniqueForwards"} \cup RateNames

\* cleaned_campaign and CampaignSummary(**cleaned_campaign)
CampaignSummary(c) == [k \in SummaryFields |-> c[k]]

CampaignsResponse(campaigns) ==
    HttpReply(OkStatus, NoDetail,
              [campaigns |-> [k \in 1..Len(campaigns) |-> CampaignSummary(campaigns[k])],
               total |-> Len(campaigns)])

\* The loop over the allow-list keeping an entry for the id that failed.
Collect_Placeholder(campaigns, campaign_id, fetched) ==
    IF fetched.raised
    THEN Append(campaigns, Normalize(RawCampaign(campaign_id, <<>>, <<>>, NoCounters)))
    ELSE Append(campaigns, fetched.value)

\* try: campaigns.append(campaign)  except Exception: continue with the others
Collect(campaigns, campaign_id, fetched) ==
    IF fetched.raised THEN campaigns ELSE Append(campaigns, fetched.value)

GetCampaignsCall ==
    /\ fIds \in RawIdSettings
    /\ fPattern \in PatternSettings
    /\ provider \in Providers
    /\ \E limit \in Limits, offset \in Offsets :
         req = [op |-> "GET /campaigns", limit |-> limit, offset |-> offset]

\* The handler up to its first await
GetCampaigns ==
    /\ req.op = "GET /campaigns"
    /\ work.pc = "idle"
    /\ LET allowed_ids == editorial_digest_campaign_ids(fIds) IN
       IF ~provider.configured
       THEN /\ reply' = NotConfigured(Text.MustBeConfigured)
            /\ work' = [pc |-> "done"]
            /\ calls' = calls
       ELSE IF allowed_ids # <<>>
       THEN /\ work' = [pc |-> "by_id", allowed_ids |-> allowed_ids, i |-> 1,
                        campaigns |-> <<>>, fetched |-> <<>>]
            /\ calls' = Append(calls, ByIdRequest(allowed_ids[1]))
            /\ reply' = reply
       ELSE /\ work' = [pc |-> "page"]
            /\ calls' = Append(calls, ListRequest(req.limit, req.offset))
            /\ reply' = reply
    /\ UNCHANGED <<jobVars, filterVars, provider, req>>

\* await service.get_campaign_by_id(campaign_id) is over, for the i-th id
GetCampaignsByIdReturns ==
    /\ req.op = "GET /campaigns"
    /\ work.pc = "by_id"
    /\ \E answer \in Answers :
         LET campaign_id == work.allowed_ids[work.i]
             fetched == ServiceGetCampaignById(campaign_id, answer)
             campaigns == Collect(work.campaigns, campaign_id, fetched)
             history == Append(work.fetched, ~fetched.raised)
         IN  IF work.i < Len(work.allowed_ids)
             THEN /\ work' = [work EXCEPT !.i = work.i + 1, !.campaigns = campaigns,
                                          !.fetched = history]
                  /\ calls' = Append(calls, ByIdRequest(work.allowed_ids[work.i + 1]))
                  /\ reply' = reply
             ELSE /\ work' = [work EXCEPT !.pc = "done", !.campaigns = campaigns,
                                          !.fetched = history]
                  /\ calls' = calls
                  /\ reply' = CampaignsResponse(campaigns)
    /\ UNCHANGED <<jobVars, filterVars, provider, req>>

\* await service.get_campaigns(limit, offset) is over
GetCampaignsPageReturns ==
    /\ req.op = "GET /campaigns"
    /\ work.pc = "page"
    /\ \E answer \in Answers :
         LET page == ServiceGetCampaigns(req.limit, req.offset, answer) IN
         /\ reply' = IF page.raised THEN NotConfigured(page.text)
                     ELSE CampaignsResponse(filter_campaigns(page.value, fIds, fPattern))
         /\ work' = [pc |-> "done", answer |-> answer]    \* history: what came back
    /\ UNCHANGED <<jobVars, filterVars, provider, req, calls>>


\* ------------------- GET /campaigns/{campaign_id} and .../{campaign_id}/links

\* ', '.join(allowed_ids)
RECURSIVE JoinComma(_)
JoinComma(ids) ==
    IF ids = <<>> THEN <<>>
    ELSE IF Len(ids) = 1 THEN Head(ids)
    ELSE Head(ids) \o <<",", " ">> \o JoinComma(Tail(ids))

NotFoundReply(campaign_id, error_str) ==
    HttpReply(NotFoundStatus,
              Detail("Campaign {} not found in ActiveCampaign. Error: {}",
                     <<campaign_id, error_str>>), NoBody)

FetchFailedReply(error_str) ==
    HttpReply(ServerErrorStatus,
              Detail("Failed to fetch campaign from ActiveCampaign API: {}", <<error_str>>),
              NoBody)

\* except Exception as api_error of get_campaign_report
ReportFetchError(campaign_id, error_str) ==
    IF IsSubstring(<<"4", "0", "4">>, error_str) \/ IsSubstring(Text.NotFound, Lower(error_str))
    THEN NotFoundReply(campaign_id, error_str)
    ELSE IF \/ IsSubstring(<<"4", "0", "1">>, error_str)
            \/ IsSubstring(<<"4", "0", "3">>, error_str)
            \/ IsSubstring(Text.Unauthorized, Lower(error_str))
    THEN HttpReply(UnavailableStatus,
                   Detail("ActiveCampaign authentication failed. Error: {}", <<error_str>>),
                   NoBody)
    ELSE FetchFailedReply(error_str)

\* except Exception as api_error of get_campaign_links
LinksFetchError(campaign_id, error_str) ==
    IF IsSubstring(<<"4", "0", "4">>, error_str) \/ IsSubstring(Text.NotFound, Lower(error_str))
    THEN NotFoundReply(campaign_id, error_str)
    ELSE FetchFailedReply(error_str)

\* The 404 for a campaign the filter rejects; the optional parts are "" when
\* the setting is empty.
NotAccessibleReply(campaign_id, campaign_name) ==
    HttpReply(NotFoundStatus,
              Detail("Campaign {} ('{}') not found or not accessible. Allowed IDs: {} Name pattern: '{}'",
                     <<campaign_id, campaign_name,
                       JoinComma(editorial_digest_campaign_ids(fIds)), fPattern>>),
              NoBody)

\* A guard that lets every fetched campaign through.
Rejects_Never(campaign_id, campaign_name) == FALSE

\* if not is_editorial_digest_campaign(campaign_id, campaign_name)
Rejects(campaign_id, campaign_name) ==
    ~is_editorial_digest_campaign(campaign_id, campaign_name, fIds, fPattern)

\* The links the provider holds for every campaign, and get_campaign_links'
\* list of them sorted by clicks, largest first
HeldLinks == << [id |-> "l1", clicks |-> 1], [id |-> "l2", clicks |-> 2] >>

SortedLinks == << HeldLinks[2], HeldLinks[1] >>

\* The ids the callers ask for; the provider never holds "9"
RequestedIds == { <<"1">>, <<"2">>, <<"9">> }

GetCampaignReportCall ==
    /\ fIds \in RawIdSettings
    /\ fPattern \in PatternSettings
    /\ provider \in Providers
    /\ \E campaign_id \in RequestedIds :
         req = [op |-> "GET /campaigns/{id}", campaign_id |-> campaign_id]

GetCampaignLinksCall ==
    /\ fIds \in RawIdSettings
    /\ fPattern \in PatternSettings
    /\ provider \in Providers
    /\ \E campaign_id \in RequestedIds :
         req = [op |-> "GET /campaigns/{id}/links", campaign_id |-> campaign_id]

\* get_campaign_report up to its first await
GetCampaignReport ==
    /\ req.op = "GET /campaigns/{id}"
    /\ work.pc = "idle"
    /\ IF ~provider.configured
       THEN /\ reply' = NotConfigured(Text.MustBeConfigured)
            /\ work' = [pc |-> "done", fetched |-> FALSE]
            /\ calls' = calls
       ELSE /\ work' = [pc |-> "by_id", fetched |-> FALSE]
            /\ calls' = Append(calls, ByIdRequest(req.campaign_id))
            /\ reply' = reply
    /\ UNCHANGED <<jobVars, filterVars, provider, req>>

\* get_campaign_links up to its first await
GetCampaignLinks ==
    /\ req.op = "GET /campaigns/{id}/links"
    /\ work.pc = "idle"
    /\ IF ~provider.configured
       THEN /\ reply' = NotConfigured(Text.MustBeConfigured)
            /\ work' = [pc |-> "done", fetched |-> FALSE]
            /\ calls' = calls
       ELSE /\ work' = [pc |-> "by_id", fetched |-> FALSE]
            /\ calls' = Append(calls, ByIdRequest(req.campaign_id))
            /\ reply' = reply
    /\ UNCHANGED <<jobVars, filterVars, provider, req>>

\* await service.get_campaign_by_id(campaign_id) is over in get_campaign_report
GetCampaignReportReturns ==
    /\ req.op = "GET /campaigns/{id}"
    /\ work.pc = "by_id"
    /\ \E answer \in Answers :
         LET campaign == ServiceGetCampaignById(req.campaign_id, answer) IN
         /\ work' = [pc |-> "done", fetched |-> ~campaign.raised,
                     answer |-> AnswerById(req.campaign_id, answer)]   \* history
         /\ reply' = IF campaign.raised
                     THEN ReportFetchError(req.campaign_id, campaign.text)
                     ELSE IF Rejects(req.campaign_id, campaign.value.name)
                     THEN NotAccessibleReply(req.campaign_id, campaign.value.name)
                     ELSE HttpReply(OkStatus, NoDetail, [campaign |-> campaign.value])
    /\ UNCHANGED <<jobVars, filterVars, provider, req, calls>>

\* The same in get_campaign_links: the links are asked for after the filter
GetCampaignLinksFetched ==
    /\ req.op = "GET /campaigns/{id}/links"
    /\ work.pc = "by_id"
    /\ \E answer \in Answers :
         LET campaign == ServiceGetCampaignById(req.campaign_id, answer) IN
         IF campaign.raised
         THEN /\ work' = [pc |-> "done", fetched |-> FALSE,
                          answer |-> AnswerById(req.campaign_id, answer)]   \* history
              /\ reply' = LinksFetchError(req.campaign_id, campaign.text)
              /\ calls' = calls
         ELSE IF Rejects(req.campaign_id, campaign.value.name)
         THEN /\ work' = [pc |-> "done", fetched |-> TRUE]
              /\ reply' = NotAccessibleReply(req.campaign_id, campaign.value.name)
              /\ calls' = calls
         ELSE /\ work' = [pc |-> "links", fetched |-> TRUE]
              /\ reply' = reply
              /\ calls' = Append(calls, LinksRequest(req.campaign_id))
    /\ UNCHANGED <<jobVars, filterVars, provider, req>>

\* await service.get_campaign_links(campaign_id) is over
GetCampaignLinksReturns ==
    /\ req.op = "GET /campaigns/{id}/links"
    /\ work.pc = "links"
    /\ \E answer \in Answers :
         LET handled == HandleResponse(answer, Text.GetCampaignLinks) IN
         reply' = IF handled.raised
                  THEN HttpReply(ServerErrorStatus,
                                 Detail("Failed to fetch campaign links: {}", <<handled.text>>),
                                 NoBody)
                  ELSE HttpReply(OkStatus, NoDetail, [links |-> SortedLinks])
    /\ work' = [work EXCEPT !.pc = "done"]
    /\ UNCHANGED <<jobVars, filterVars, provider, req, calls>>

\* ------------------------------------------------ GET /campaigns-list-all
\* The order of the characters of a date
CharRank(c) == CHOOSE d \in 0..9 : Digit(d) = c

\* a < b as Python compares strings
RECURSIVE LexLess(_, _)
LexLess(a, b) ==
    IF b = <<>> THEN FALSE
    ELSE IF a = <<>> THEN TRUE
    ELSE IF Head(a) # Head(b) THEN CharRank(Head(a)) < CharRank(Head(b))
    ELSE LexLess(Tail(a), Tail(b))

\* A descending order that lets a later entry of equal sendDate go ahead.
GoesAhead_OrEqual(x, y) == ~LexLess(x.sendDate, y.sendDate)

\* reverse=True: x goes ahead of y only where its sendDate is greater
GoesAhead(x, y) == LexLess(y.sendDate, x.sendDate)

\* x put behind the entries it does not go ahead of
RECURSIVE InsertDesc(_, _)
InsertDesc(sorted, x) ==
    IF sorted = <<>> THEN <<x>>
    ELSE IF GoesAhead(x, Head(sorted)) THEN <<x>> \o sorted
    ELSE <<Head(sorted)>> \o InsertDesc(Tail(sorted), x)

\* list.sort(key=sendDate, reverse=True): entries of equal sendDate keep
\* their order
RECURSIVE SortBySendDateDesc(_)
SortBySendDateDesc(list) ==
    IF list = <<>> THEN <<>>
    ELSE InsertDesc(SortBySendDateDesc(SubSeq(list, 1, Len(list) - 1)), list[Len(list)])

\* The loop over seen_ids: the first entry of every id is kept
RECURSIVE Unique(_, _)
Unique(list, seen_ids) ==
    IF list = <<>> THEN <<>>
    ELSE IF Head(list).id \in seen_ids THEN Unique(Tail(list), seen_ids)
    ELSE <<Head(list)>> \o Unique(Tail(list), seen_ids \cup {Head(list).id})

\* [id.strip() for id in check_ids.split(",")]
IdsToCheck(check_ids) ==
    LET parts == SplitComma(check_ids, <<>>) IN [k \in 1..Len(parts) |-> Strip(parts[k])]

\* s.split("HTTP ")[-1]
AfterLastHTTP(s) ==
    LET at == {k \in 0..(Len(s) - Len(Text.HTTP)) :
                   SubSeq(s, k + 1, k + Len(Text.HTTP)) = Text.HTTP}
    IN  IF at = {} THEN s
        ELSE LET last == CHOOSE k \in at : \A j \in at : j <= k
             IN  SubSeq(s, last + Len(Text.HTTP) + 1, Len(s))

\* s.split()[0]
RECURSIVE UpToWhite(_)
UpToWhite(s) ==
    IF s = <<>> \/ Head(s) \in White THEN <<>> ELSE <<Head(s)>> \o UpToWhite(Tail(s))

FirstWord(s) == UpToWhite(LStrip(s))


HttpStatusOf(error_detail) ==
    IF IsSubstring(<<"H", "T", "T", "P">>, error_detail)
    THEN FirstWord(AfterLastHTTP(error_detail))
    ELSE Text.Unknown

CheckError(campaign_id, error_detail) ==
    [id |-> campaign_id, error |-> error_detail, http_status |-> HttpStatusOf(error_detail)]


\* The record standing for an id whose fetch failed
Placeholder(campaign_id, error_detail) ==
    [id |-> campaign_id,
     name |-> Text.NotFoundOpen \o error_detail \o <<"]">>,
     sendDate |-> <<>>,
     status |-> "NOT_FOUND",
     totalSends |-> 0,
     uniqueOpens |-> 0,
     uniqueClicks |-> 0]

\* A failed check that leaves no record.
CheckFailed_Dropped(checked_campaigns, campaign_id, error_detail) == checked_campaigns

\* except Exception as e: checked_campaigns.append({... "status": "NOT_FOUND" ...})
CheckFailed(checked_campaigns, campaign_id, error_detail) ==
    Append(checked_campaigns, Placeholder(campaign_id, error_detail))

ListedFields ==
    {"id", "name", "sendDate", "status", "totalSends", "uniqueOpens", "uniqueClicks"}

\* The simplified entry of campaigns_list
Listed(c) == [k \in ListedFields |-> c[k]]

\* if search and search.lower() not in campaign_name.lower(): continue
Searched(all_campaigns_raw, search) ==
    LET Found(c) == search = <<>> \/ IsSubstring(Lower(search), Lower(c.name))
    IN  SelectSeq(all_campaigns_raw, Found)

\* campaigns_list before it is sorted: the page entries, then the checked ones
CombinedList(all_campaigns_raw, checked_campaigns, search) ==
    LET paged == Searched(all_campaigns_raw, search) IN
    [k \in 1..Len(paged) |-> Listed(paged[k])]
        \o [k \in 1..Len(checked_campaigns) |-> Listed(checked_campaigns[k])]

\* The loop ending on a page shorter than asked for, left out.
LastPage_Never(page_campaigns, page_size) == FALSE

\* if len(page_campaigns) < page_size: break
LastPage(page_campaigns, page_size) == Len(page_campaigns) < page_size

\* min(limit, 500)
PageSize(limit) == IF limit < MaxPageSize THEN limit ELSE MaxPageSize

Searches == { <<>>, <<"B">> }

CheckIdsValues == { <<>>, <<"1">>, <<"1", ",", "1">>, <<"9", ",", " ", "2">> }

ListAllCampaignsCall ==
    /\ fIds = <<>>
    /\ fPattern = <<>>
    /\ provider \in Providers
    /\ \E limit \in Limits, offset \in Offsets, search \in Searches,
          check_ids \in CheckIdsValues, fetch_all_pages \in BOOLEAN :
         req = [op |-> "GET /campaigns-list-all", limit |-> limit, offset |-> offset,
                search |-> search, check_ids |-> check_ids,
                fetch_all_pages |-> fetch_all_pages]

\* The first list request: page_size and offset 0 with fetch_all_pages, else
\* the caller's limit and offset
FirstList ==
    IF req.fetch_all_pages THEN ListRequest(PageSize(req.limit), 0)
    ELSE ListRequest(req.limit, req.offset)

\* What is left of the handler after the last page
ListAllResponse(all_campaigns_raw, checked_campaigns, check_errors) ==
    LET campaigns_list == CombinedList(all_campaigns_raw, checked_campaigns, req.search)
        unique_campaigns == Unique(SortBySendDateDesc(campaigns_list), {})
        response_data ==
            [total |-> Len(unique_campaigns),
             campaigns |-> unique_campaigns,
             pagination |->
                 [limit |-> req.limit, offset |-> req.offset,
                  has_more |-> IF req.fetch_all_pages THEN FALSE
                               ELSE Len(all_campaigns_raw) >= req.limit]]
    IN  HttpReply(OkStatus, NoDetail,
                  IF check_errors # <<>>
                  THEN response_data @@ [check_errors |-> check_errors]
                  ELSE response_data)

\* The handler up to its first await
ListAllCampaigns ==
    /\ req.op = "GET /campaigns-list-all"
    /\ work.pc = "idle"
    /\ LET ids_to_check == IF req.check_ids = <<>> THEN <<>> ELSE IdsToCheck(req.check_ids)
           locals == [ids_to_check |-> ids_to_check, i |-> 1, checked_campaigns |-> <<>>,
                      check_errors |-> <<>>, all_campaigns_raw |-> <<>>,
                      current_offset |-> 0,
                      answers |-> <<>>,     \* history: what each direct fetch came back with
                      page_raised |-> FALSE]  \* history: a list request failed
       IN  IF ~provider.configured
           THEN /\ reply' = NotConfigured(Text.MustBeConfigured)
                /\ work' = [pc |-> "done"] @@ locals
                /\ calls' = calls
           ELSE IF ids_to_check # <<>>
           THEN /\ work' = [pc |-> "check"] @@ locals
                /\ calls' = Append(calls, ByIdRequest(ids_to_check[1]))
                /\ reply' = reply
           ELSE /\ work' = [pc |-> "page"] @@ locals
                /\ calls' = Append(calls, FirstList)
                /\ reply' = reply
    /\ UNCHANGED <<jobVars, filterVars, provider, req>>

\* await service.get_campaign_by_id(campaign_id) is over, for the i-th checked id
ListAllCheckReturns ==
    /\ req.op = "GET /campaigns-list-all"
    /\ work.pc = "check"
    /\ \E answer \in Answers :
         LET campaign_id == work.ids_to_check[work.i]
             campaign == ServiceGetCampaignById(campaign_id, answer)
             checked == IF campaign.raised
                        THEN CheckFailed(work.checked_campaigns, campaign_id, campaign.text)
                        ELSE Append(work.checked_campaigns, campaign.value)
             errors == IF campaign.raised
                       THEN Append(work.check_errors, CheckError(campaign_id, campaign.text))
                       ELSE work.check_errors
             answers == Append(work.answers, AnswerById(campaign_id, answer))
         IN  IF work.i < Len(work.ids_to_check)
             THEN /\ work' = [work EXCEPT !.i = work.i + 1, !.checked_campaigns = checked,
                                          !.check_errors = errors, !.answers = answers]
                  /\ calls' = Append(calls, ByIdRequest(work.ids_to_check[work.i + 1]))
             ELSE /\ work' = [work EXCEPT !.pc = "page", !.checked_campaigns = checked,
                                          !.check_errors = errors, !.answers = answers]
                  /\ calls' = Append(calls, FirstList)
    /\ UNCHANGED <<jobVars, filterVars, provider, req, reply>>

\* await service.get_campaigns(...) is over: one more page, or the response
ListAllPageReturns ==
    /\ req.op = "GET /campaigns-list-all"
    /\ work.pc = "page"
    /\ \E answer \in Answers :
         LET page_size == PageSize(req.limit)
             page_campaigns ==
                 IF req.fetch_all_pages
                 THEN ServiceGetCampaigns(page_size, work.current_offset, answer)
                 ELSE ServiceGetCampaigns(req.limit, req.offset, answer)
         IN  IF page_campaigns.raised
             THEN /\ reply' = NotConfigured(page_campaigns.text)
                  /\ work' = [work EXCEPT !.pc = "done", !.page_raised = TRUE]
                  /\ calls' = calls
             ELSE LET all_campaigns_raw == work.all_campaigns_raw \o page_campaigns.value IN
                  IF /\ req.fetch_all_pages
                     /\ page_campaigns.value # <<>>
                     /\ ~LastPage(page_campaigns.value, page_size)
                  THEN /\ work' = [work EXCEPT
                                       !.all_campaigns_raw = all_campaigns_raw,
                                       !.current_offset = work.current_offset + page_size]
                       /\ calls' = Append(calls, ListRequest(page_size,
                                                             work.current_offset + page_size))
                       /\ reply' = reply
                  ELSE /\ work' = [work EXCEPT !.pc = "done",
                                               !.all_campaigns_raw = all_campaigns_raw]
                       /\ calls' = calls
                       /\ reply' = ListAllResponse(all_campaigns_raw, work.checked_campaigns,
                                                   work.check_errors)
    /\ UNCHANGED <<jobVars, filterVars, provider, req>>

\* ---------------------------------------------- the analytics specification
\* One analytics operation is called, with its arguments drawn.
QueryInit ==
    /\ JobIdle
    /\ fCid = <<>>
    /\ fName = <<>>
    /\ fResult = "none"
    /\ work = [pc |-> "idle"]
    /\ calls = <<>>
    /\ reply = NoReply
    /\ \/ FilterCampaignsCall
       \/ CalcRateCall
       \/ ServiceGetCampaignsCall
       \/ MalformedPageCall
       \/ GetCampaignsCall
       \/ GetCampaignReportCall
       \/ GetCampaignLinksCall
       \/ ListAllCampaignsCall

QueryNext ==
    \/ FilterCampaigns
    \/ CalcRate
    \/ ServiceGetCampaignsSends
    \/ ServiceGetCampaignsReturns
    \/ GetCampaigns
    \/ GetCampaignsByIdReturns
    \/ GetCampaignsPageReturns
    \/ GetCampaignReport
    \/ GetCampaignReportReturns
    \/ GetCampaignLinks
    \/ GetCampaignLinksFetched
    \/ GetCampaignLinksReturns
    \/ ListAllCampaigns
    \/ ListAllCheckReturns
    \/ ListAllPageReturns

QuerySpec == QueryInit /\ [][QueryNext]_vars


\* ================================================================== claims
Finished(r) == inv[r].pc = "done"

\* The audit records written by invocation r.
AuditsOf(r) == {k \in 1..Len(cron_jobs) : cron_jobs[k].run = r}

\* Position j of run r's enumeration, as the row now in the store.
RowOf(r, j) == CHOOSE row \in SeqToSet(store) : row.id = inv[r].pillars[j].id

Untouched(row) == row.last_updated = 0 /\ row.news_items = <<"n0">>

OthersWrote(r, id) == \E q \in Slots \ {r} : id \in inv[q].wrote

\* C1: every audit record has status "success" when its failed count is 0,
\* else "partial" when its success count is positive, else "failed".
C1_StatusByCounts ==
    \A k \in 1..Len(cron_jobs) :
        LET a == cron_jobs[k] IN
        a.status = IF a.results.failed = 0 THEN "success"
                   ELSE IF a.results.success > 0 THEN "partial"
                   ELSE "failed"

\* C2: the audit record of a run counts as successes exactly the pillars that
\* were refreshed and stored, as failures all the others, and the run changed
\* the row (items and last_updated) of exactly the successful pillars.
C2_CountsAndRowsMatchOutcomes ==
    \A r \in Slots :
        inv[r].audit = "written" =>
            LET s == inv[r]
                N == 1..Len(s.pillars)
                ok == {j \in N : s.outcomes[j] = "ok"}
            IN  /\ Len(s.outcomes) = Len(s.pillars)
                /\ \E k \in AuditsOf(r) :
                      /\ cron_jobs[k].results.success = Cardinality(ok)
                      /\ cron_jobs[k].results.failed = Cardinality(N \ ok)
                /\ \A j \in N :
                      /\ (s.pillars[j].id \in s.wrote) <=> (j \in ok)
                      /\ j \in ok => /\ RowOf(r, j).last_updated >= s.t0
                                     /\ RowOf(r, j).news_items # <<"n0">>
                      /\ (j \notin ok /\ ~OthersWrote(r, s.pillars[j].id))
                            => Untouched(RowOf(r, j))

\* Three pillars, the refresh of the second one throws: partial, 2 and 1,
\* rows 1 and 3 rewritten and row 2 as it was.
C2_Witness ==
    \E r \in Slots :
        /\ inv[r].audit = "written"
        /\ inv[r].outcomes = <<"ok", "raise", "ok">>
        /\ \E k \in AuditsOf(r) :
              /\ cron_jobs[k].status = "partial"
              /\ cron_jobs[k].results.success = 2
              /\ cron_jobs[k].results.failed = 1
        /\ ~Untouched(store[1]) /\ Untouched(store[2]) /\ ~Untouched(store[3])

\* C3: in a run the refresh port is called for the enumerated pillars in
\* enumeration order, once each, the next call only after the previous one
\* came back, and a run that ends has called it for every pillar, whatever
\* happened to the earlier ones.
C3_OneRefreshPerPillarInOrder ==
    \A r \in Slots :
        LET s == inv[r] IN
        /\ Len(s.invoked) <= Len(s.pillars)
        /\ \A k \in 1..Len(s.invoked) :
              s.invoked[k] = [pillar |-> s.pillars[k].id,
                              category |-> Category(s.pillars[k].name),
                              num_items |-> NumItems]
        /\ Len(s.invoked) - Len(s.outcomes) \in {0, 1}
        /\ s.pc = "fetching" => Len(s.invoked) - Len(s.outcomes) = 1
        /\ s.pc \in {"idle", "posting", "sleeping", "done"}
              => Len(s.invoked) = Len(s.outcomes)
        /\ (Finished(r) /\ s.enum = "ok") => Len(s.invoked) = Len(s.pillars)

\* A finished run over three pillars in which the first refresh threw, the
\* second store update threw and the third refresh found nothing.
C3_Witness ==
    \E r \in Slots :
        /\ Finished(r)
        /\ inv[r].outcomes = <<"raise", "store_raise", "empty">>
        /\ Len(inv[r].invoked) = 3

\* C4: a run whose enumeration fails (credentials missing, store raising) or
\* finds no pillar returns normally without an audit record, without a call
\* of the refresh port and without an update of any row.
C4_NoWorkNoAudit ==
    \A r \in Slots :
        (Finished(r) /\ inv[r].localRuns > 0 /\ inv[r].enum # "ok") =>
            /\ inv[r].enum \in {"no_creds", "raise", "empty"}
            /\ inv[r].result = "returned"
            /\ inv[r].audit = "none"
            /\ AuditsOf(r) = {}
            /\ inv[r].invoked = <<>>
            /\ inv[r].wrote = {}
            /\ \A k \in 1..Len(store) :
                  OthersWrote(r, store[k].id) \/ Untouched(store[k])

\* The store holds pillars and raises on the select.
C4_Witness ==
    \E r \in Slots :
        /\ Finished(r)
        /\ inv[r].enum = "raise"
        /\ store # <<>>
        /\ cron_jobs = <<>>

\* C5: every refresh call after the first of a run is preceded by the
\* inter-entity delay.
C5_DelayBeforeEveryNextRefresh ==
    \A r \in Slots : \A k \in 1..Len(inv[r].gaps) : inv[r].gaps[k]

Is2xx(resp) == resp \in 200..299

C7_Any2xxDelegates ==
    \A r \in Slots :
        (inv[r].kind = "trigger" /\ Is2xx(inv[r].post)) =>
            /\ inv[r].localRuns = 0
            /\ inv[r].invoked = <<>>

\* C8: at most one ingestion run is in progress at any time.
C8_NoOverlappingRuns ==
    Cardinality({r \in Slots : InFlight(r)}) <= 1

Running == {k \in 1..Len(instances) : instances[k].running}

\* C9: at most one scheduler runs, it is the global one and it holds the one
\* job "daily_news_update"; the status operation answers "not running, no
\* jobs" exactly when the global is None; stopping is possible whenever a
\* scheduler is started, a run in flight or not; a step taken while a
\* scheduler is started either keeps it or stops it without moving any run
\* forward, and no step taken while stopped touches a scheduler except a start.
C9_SchedulerLifecycle ==
    /\ [](/\ Cardinality(Running) <= 1
          /\ Running = IF scheduler = 0 THEN {} ELSE {scheduler}
          /\ scheduler # 0 => instances[scheduler].jobs = <<JobId>>
          /\ (get_scheduler_status = [running |-> FALSE, jobs |-> <<>>]) <=> (scheduler = 0)
          /\ scheduler # 0 => ENABLED (stop_scheduler /\ scheduler' = 0))
    /\ [][/\ scheduler # 0 =>
               \/ scheduler' = scheduler /\ instances' = instances
               \/ /\ scheduler' = 0
                  /\ instances' = [instances EXCEPT ![scheduler].running = FALSE]
                  /\ \A r \in Slots : inv'[r].pc \in {inv[r].pc, "cancelled"}
          /\ scheduler = 0 =>
               \/ scheduler' = 0 /\ instances' = instances
               \/ /\ scheduler' = Len(instances) + 1
                  /\ instances' = Append(instances, [running |-> TRUE, jobs |-> <<JobId>>])
         ]_vars

\* The scheduler was stopped while the run it fired was waiting for a
\* refresh, and the run is still waiting.
C9_Witness ==
    /\ scheduler = 0
    /\ Len(instances) = 1
    /\ \E r \in Slots : inv[r].kind = "scheduled" /\ inv[r].sched = 1 /\ InFlight(r)

\* The conditions the claim gives for accepts.
AcceptsAsClaimed(cid, name, raw_ids, pattern) ==
    LET allow == SeqToSet(editorial_digest_campaign_ids(raw_ids)) IN
    \/ allow = {} /\ pattern = <<>>
    \/ allow # {} /\ Strip(cid) \in allow
    \/ pattern # <<>> /\ IsSubstring(Lower(pattern), Lower(name))

\* The same with the pattern trimmed and the name required to be non-empty.
AcceptsAmended(cid, name, raw_ids, pattern) ==
    LET allow == SeqToSet(editorial_digest_campaign_ids(raw_ids)) IN
    \/ allow = {} /\ pattern = <<>>
    \/ allow # {} /\ Strip(cid) \in allow
    \/ pattern # <<>> /\ name # <<>> /\ IsSubstring(Strip(Lower(pattern)), Lower(name))

\* C10 as stated: accepts is true exactly when both settings are empty, or the
\* trimmed id is in the non-empty allow-list, or the non-empty lower-cased
\* pattern is a substring of the lower-cased name.
C10_AcceptsAsStated ==
    fResult # "none" => ((fResult = "True") <=> AcceptsAsClaimed(fCid, fName, fIds, fPattern))

\* C10 amended: the third case holds when pattern and name are both non-empty
\* and the lower-cased pattern, trimmed, is a substring of the lower-cased name.
C10_AcceptsTrimmedPattern ==
    fResult # "none" => ((fResult = "True") <=> AcceptsAmended(fCid, fName, fIds, fPattern))

\* An id outside the allow-list accepted because the pattern " a", trimmed,
\* occurs in the name.
C10_Witness ==
    /\ fResult = "True"
    /\ fPattern = <<" ", "a">>
    /\ fIds = <<"1">>
    /\ Strip(fCid) = <<"2">>
    /\ ~IsSubstring(Lower(fPattern), Lower(fName))

\* C28: every audit record counts each enumerated pillar once, as a success or
\* as a failure, whichever way the pillar went: refreshed and stored, empty
\* result, exception of the refresh, exception of the store update.
C28_CountsCoverEveryPillar ==
    /\ \A k \in 1..Len(cron_jobs) :
          LET a == cron_jobs[k] IN
          /\ a.results.success + a.results.failed = a.results.total_pillars
          /\ a.results.total_pillars = Len(inv[a.run].pillars)
    /\ \A r \in Slots :
          inv[r].audit # "none" =>
              /\ inv[r].success_count + inv[r].fail_count = Len(inv[r].pillars)
              /\ Len(inv[r].outcomes) = Len(inv[r].pillars)

\* Three pillars: a store update that threw, a stored refresh, an empty
\* result; the record says 1 and 2 of 3.
C28_Witness ==
    \E r \in Slots :
        /\ inv[r].outcomes = <<"store_raise", "ok", "empty">>
        /\ \E k \in AuditsOf(r) :
              /\ cron_jobs[k].results.total_pillars = 3
              /\ cron_jobs[k].results.success = 1
              /\ cron_jobs[k].results.failed = 2

\* C29: an invocation of trigger_n8n_workflow calls the local refresh at most
\* once: the local refresh never lets an exception out, so the call made in
\* the try after an answer other than 200 is never followed by the call of
\* the except handler.
C29_AtMostOneLocalRun ==
    \A r \in Slots :
        inv[r].kind = "trigger" =>
            /\ inv[r].localRuns <= 1
            /\ inv[r].result # "raised"
            /\ Cardinality(AuditsOf(r)) <= 1

\* The webhook answers 500 and the store raises on the select of the
\* fallback: one local run, which returned.
C29_Witness ==
    \E r \in Slots :
        /\ inv[r].kind = "trigger"
        /\ inv[r].post = 500
        /\ inv[r].enum = "raise"
        /\ inv[r].localRuns = 1
        /\ inv[r].result = "returned"

\* The step of run r in which the refresh of a pillar came back empty.
CameBackEmpty(r) ==
    /\ Len(inv'[r].outcomes) = Len(inv[r].outcomes) + 1
    /\ inv'[r].outcomes[Len(inv'[r].outcomes)] = "empty"

\* C30: a refresh that returns no item without raising adds one to the
\* failures and none to the successes and leaves every row of the store as it
\* was; no row ever holds an empty list of items.
C30_EmptyResultIsFailureAndKeepsStore ==
    /\ [](\A k \in 1..Len(store) : store[k].news_items # NoItems)
    /\ [][\A r \in Slots :
            CameBackEmpty(r) =>
                /\ inv'[r].fail_count = inv[r].fail_count + 1
                /\ inv'[r].success_count = inv[r].success_count
                /\ inv'[r].wrote = inv[r].wrote
                /\ store' = store]_vars

\* A finished run over two pillars: nothing found for the first, whose row is
\* as it was, and the second stored.
C30_Witness ==
    \E r \in Slots :
        /\ inv[r].outcomes = <<"empty", "ok">>
        /\ inv[r].audit = "written"
        /\ inv[r].fail_count = 1
        /\ Untouched(RowOf(r, 1))
        /\ ~Untouched(RowOf(r, 2))

\* ------------------------------------------------- claims on the analytics
Returns(op) == req.op = op /\ reply.kind = "value"

\* The campaigns of the list that is_editorial_digest_campaign accepts, in order.
AcceptedOf(campaigns) ==
    LET Accepted(c) == is_editorial_digest_campaign(c.id, c.name, fIds, fPattern)
    IN  SelectSeq(campaigns, Accepted)

\* C11: filter_campaigns returns the campaigns of its argument that
\* is_editorial_digest_campaign accepts, in their order: the list filter and
\* the predicate never disagree on a campaign.
C11_FilterAllAgreesWithAccepts ==
    Returns("filter_campaigns") => reply.value = AcceptedOf(req.campaigns)

\* A ratio or argument that makes _calc_rate give 0.0
ResolvesToZero(x) == x.t \in {"none", "empty"} \/ (x.t \in {"int", "str"} /\ x.v = 0)

\* C20: _calc_rate never raises; it returns 0.0 when the denominator is 0,
\* absent or null, whatever the numerator, and when the numerator or the
\* denominator is not numeric.
C20_RateTotal ==
    Returns("_calc_rate") =>
        /\ ~reply.value.raised
        /\ (ResolvesToZero(req.denominator) \/ req.numerator.t = "bad"
                \/ req.denominator.t = "bad") => reply.value.value = 0

\* A non-numeric numerator over a zero denominator gave 0.0.
C20_Witness ==
    /\ Returns("_calc_rate")
    /\ req.numerator = BadVal
    /\ req.denominator = IntVal(0)
    /\ reply.value = Returned(0)

Answered(op) == req.op = op /\ reply.kind = "http"

AllowList == editorial_digest_campaign_ids(fIds)

\* The entries of the ids of the allow-list whose fetch succeeded, in order.
RECURSIVE FetchedOf(_, _)
FetchedOf(ids, fetched) ==
    IF ids = <<>> THEN <<>>
    ELSE (IF Head(fetched) THEN <<CampaignSummary(Normalize(Held(Head(ids))))>> ELSE <<>>)
             \o FetchedOf(Tail(ids), Tail(fetched))

\* A campaign of a page passes the list filter: both settings empty, or the
\* name and the trimmed lower-cased pattern are non-empty and the one holds
\* the other (the allow-list is empty where the page is fetched).
PassesPattern(c) ==
    \/ fPattern = <<>>
    \/ /\ Strip(Lower(fPattern)) # <<>>
       /\ c.name # <<>>
       /\ IsSubstring(Strip(Lower(fPattern)), Lower(c.name))

PageOf(limit, offset) ==
    LET page == Page(limit, offset) IN
    [k \in 1..Len(page) |-> CampaignSummary(Normalize(page[k]))]

ListedIdsOf(campaigns) == {campaigns[k].id : k \in 1..Len(campaigns)}

\* C13: with the allow-list and the name pattern both set, GET /campaigns
\* returns the campaigns of the page whose name matches the pattern in
\* addition to the allow-listed ones.
C13_PatternAddsToAllowList ==
    (Answered("GET /campaigns") /\ reply.status = OkStatus
        /\ AllowList # <<>> /\ Strip(fPattern) # <<>>) =>
        \A c \in SeqToSet(PageOf(req.limit, req.offset)) :
            (PassesPattern(c) /\ c.id \notin SeqToSet(AllowList)) =>
                c.id \in ListedIdsOf(reply.body.campaigns)

\* C19: every rate of a campaign entry lies between 0 and 100 for
\* non-negative counters, also where a numerator exceeds its denominator.
C19_RatesWithinPercent ==
    (Returns("AnalyticsService.get_campaigns") /\ ~reply.value.raised) =>
        \A k \in 1..Len(reply.value.value) : \A rate \in RateNames :
            reply.value.value[k][rate] \in 0..(100 * 100)

ReportOp == "GET /campaigns/{id}"

LinksOp == "GET /campaigns/{id}/links"

\* The provider holds the campaign asked for and the filter does not accept it.
HeldButRejected ==
    /\ req.op \in {ReportOp, LinksOp}
    /\ provider.configured
    /\ Holds(req.campaign_id)
    /\ ~AcceptsAmended(req.campaign_id, Held(req.campaign_id).name, fIds, fPattern)

LinksAsked == \E k \in 1..Len(calls) : calls[k].endpoint = "campaigns/{id}/links"

\* C14: for a campaign the provider holds and the filter rejects, the report
\* and the links operation answer 404 without campaign or link data once the
\* campaign is fetched, and the links request is never sent.
C14_RejectedIsNotFound ==
    HeldButRejected =>
        /\ ~LinksAsked
        /\ reply.kind = "http" =>
               /\ reply.body = NoBody
               /\ work.fetched => reply.status = NotFoundStatus

\* The links of a held campaign outside the family were asked for: 404, and
\* the only request sent is the fetch of the campaign.
C14_Witness ==
    /\ HeldButRejected
    /\ req.op = LinksOp
    /\ reply.kind = "http"
    /\ work.fetched
    /\ reply.status = NotFoundStatus
    /\ calls = <<ByIdRequest(req.campaign_id)>>

\* What get_campaign_report answers for the same id and settings where the
\* provider does not hold the campaign.
ReportWhereAbsent ==
    ReportFetchError(req.campaign_id, HandleResponse(NotFoundAnswer, Text.GetCampaign).text)

\* C15: the answer of get_campaign_report, status and detail, for a held
\* campaign the filter rejects is the answer it gives where the provider does
\* not hold the campaign.
C15_RejectedLooksAbsent ==
    (HeldButRejected /\ req.op = ReportOp /\ reply.kind = "http" /\ work.fetched) =>
        reply = ReportWhereAbsent

ListAllOp == "GET /campaigns-list-all"

\* The diagnostic list was returned; Combined is campaigns_list as it was
\* built, the page entries followed by the checked ones.
Listing == Answered(ListAllOp) /\ reply.status = OkStatus

Combined == CombinedList(work.all_campaigns_raw, work.checked_campaigns, req.search)

FirstOf(id, list) == list[CHOOSE k \in 1..Len(list) :
                              list[k].id = id /\ \A j \in 1..(k - 1) : list[j].id # id]

EntriesOf(id, list) == {k \in 1..Len(list) : list[k].id = id}

\* C16: an id occurring in the combined list has exactly one entry in the
\* result, and that entry is its first occurrence in the combined list,
\* whatever the sendDate of its occurrences.
C16_FirstOccurrenceWins ==
    Listing =>
        \A k \in 1..Len(Combined) :
            LET id == Combined[k].id IN
            /\ Cardinality(EntriesOf(id, reply.body.campaigns)) = 1
            /\ FirstOf(id, reply.body.campaigns) = FirstOf(id, Combined)

\* a >= b as strings
LexGeq(a, b) == ~LexLess(a, b)

\* The result is the combined list with positions left out and the rest
\* rearranged: from(k) is the position the k-th entry of the result had.
Rearranges(from, result, list) ==
    /\ \A k \in 1..Len(result) : result[k] = list[from[k]]
    /\ \A k, j \in 1..Len(result) : k < j =>
           /\ from[k] # from[j]
           /\ LexGeq(result[k].sendDate, result[j].sendDate)
           /\ result[k].sendDate = result[j].sendDate => from[k] < from[j]

\* C17: the list returned has no two entries of one id and is in descending
\* order of sendDate compared as strings, the empty sendDate last, entries of
\* equal sendDate in the order they had in the combined list.
C17_UniqueAndSortedStable ==
    Listing =>
        LET result == reply.body.campaigns IN
        /\ \A k, j \in 1..Len(result) : k # j => result[k].id # result[j].id
        /\ \E from \in [1..Len(result) -> 1..Len(Combined)] :
               Rearranges(from, result, Combined)
        /\ \A k \in 1..Len(result) :
               result[k].sendDate = <<>> =>
                   \A j \in k..Len(result) : result[j].sendDate = <<>>

\* The placeholder of id "9" was second in the combined list and is last in
\* the result, behind two campaigns of sendDate "10" in their combined order.
C17_Witness ==
    /\ Listing
    /\ Len(Combined) = 3
    /\ Len(reply.body.campaigns) = 3
    /\ reply.body.campaigns[1].sendDate = <<"1", "0">>
    /\ reply.body.campaigns[2].sendDate = <<"1", "0">>
    /\ reply.body.campaigns[3].status = "NOT_FOUND"
    /\ Combined[1] = reply.body.campaigns[1]
    /\ Combined[2] = reply.body.campaigns[3]
    /\ Combined[3] = reply.body.campaigns[2]

ListCalls ==
    LET IsList(c) == c.endpoint = "campaigns" IN SelectSeq(calls, IsList)

\* C18: with fetch_all_pages the list requests are sent at offsets 0, P, 2P,
\* ... with limit P, never more than N div P + 1 of them; the loop is over
\* after exactly N div P + 1 requests and has collected the N campaigns of the
\* provider, each once.
C18_PagingTerminates ==
    (req.op = ListAllOp /\ req.fetch_all_pages /\ provider.configured) =>
        LET P == PageSize(req.limit)
            N == Len(provider.campaigns)
        IN  /\ Len(ListCalls) <= (N \div P) + 1
            /\ \A k \in 1..Len(ListCalls) : ListCalls[k] = ListRequest(P, (k - 1) * P)
            /\ Listing =>
                   /\ Len(ListCalls) = (N \div P) + 1
                   /\ Len(work.all_campaigns_raw) = N
                   /\ \A k \in 1..N : work.all_campaigns_raw[k].id = provider.campaigns[k].id

\* Two campaigns were collected in pages of one: three requests, the last
\* one answered by an empty page.
C18_Witness ==
    /\ Listing
    /\ req.fetch_all_pages
    /\ PageSize(req.limit) = 1
    /\ Len(provider.campaigns) = 2
    /\ Len(ListCalls) = 3
    /\ Len(work.all_campaigns_raw) = 2

\* The campaigns of the page asked for whose counters all convert.
SoundOnPage ==
    LET page == Page(req.limit, req.offset) IN
    {k \in 1..Len(page) : ~Normalize(page[k]).raised}

\* The page was asked for and the provider answered it.
PageCameBack ==
    /\ req.op \in {"AnalyticsService.get_campaigns", "GET /campaigns"}
    /\ work.pc = "done"
    /\ reply.kind # "none"
    /\ provider.configured
    /\ AllowList = <<>>
    /\ work.answer = NoFault

\* C21: a campaign with a counter that is not a number does not fail the
\* page: get_campaigns, and GET /campaigns over it, still return the campaigns
\* of the page whose counters convert (those that pass the filter, under the
\* endpoint).
C21_MalformedCounterKeepsThePage ==
    PageCameBack =>
        LET page == Page(req.limit, req.offset) IN
        IF req.op = "GET /campaigns"
        THEN /\ reply.status = OkStatus
             /\ \A k \in SoundOnPage :
                   PassesPattern(page[k]) => page[k].id \in ListedIdsOf(reply.body.campaigns)
        ELSE /\ ~reply.value.raised
             /\ \A k \in SoundOnPage : page[k].id \in ListedIdsOf(reply.value.value)

\* The reply is the 503 "Analytics service not configured".
SaysNotConfigured ==
    /\ reply.kind = "http"
    /\ reply.status = UnavailableStatus
    /\ reply.detail.template = "Analytics service not configured: {}"

\* C22: GET /campaigns and GET /campaigns-list-all answer "not configured"
\* only when the URL or the API key is missing: with both set, an HTTP error
\* of the provider or a transport failure of the list request is answered as
\* something else.
C22_NotConfiguredOnlyWithoutCredentials ==
    (req.op \in {"GET /campaigns", ListAllOp} /\ SaysNotConfigured) => ~provider.configured

\* The error classes of the two single-campaign endpoints, by the reply.
ErrorClassOf(r) ==
    IF r.status = NotFoundStatus THEN "NotFound"
    ELSE IF r.status = UnavailableStatus
            /\ r.detail.template = "ActiveCampaign authentication failed. Error: {}"
    THEN "AuthFailure"
    ELSE IF r.status = ServerErrorStatus THEN "UpstreamError"
    ELSE "other"

\* The class the upstream answer calls for.
ErrorClassFor(answer) ==
    IF answer.transport THEN "UpstreamError"
    ELSE IF answer.status = NotFoundStatus THEN "NotFound"
    ELSE IF answer.status \in {401, 403} THEN "AuthFailure"
    ELSE "UpstreamError"

\* The direct fetch of the campaign of a single-campaign endpoint failed.
DirectFetchFailed ==
    /\ req.op \in {ReportOp, LinksOp}
    /\ provider.configured
    /\ work.pc = "done"
    /\ ~work.fetched
    /\ work.answer # NoFault

\* C23: when the direct fetch fails, GET /campaigns/{id} and
\* GET /campaigns/{id}/links answer with the class of the upstream status: not
\* found for 404, authentication failure for 401 and 403, upstream error for
\* everything else, the same in both.
C23_ErrorClassByStatus ==
    DirectFetchFailed => ErrorClassOf(reply) = ErrorClassFor(work.answer)

\* C24: the allow-list holds the trimmed non-empty ids of the setting in
\* their order and none twice, and GET /campaigns over it neither fetches nor
\* returns a campaign twice.
C24_AllowListWithoutDuplicates ==
    /\ (req.op = "GET /campaigns" /\ work.pc # "idle") =>
          /\ \A j, k \in 1..Len(AllowList) :
                /\ AllowList[j] # <<>>
                /\ AllowList[j] = Strip(AllowList[j])
                /\ AllowList[j] = AllowList[k] => j = k
          /\ \A j, k \in 1..Len(calls) : calls[j] = calls[k] => j = k
    /\ (Answered("GET /campaigns") /\ reply.status = OkStatus) =>
          \A j, k \in 1..Len(reply.body.campaigns) :
              reply.body.campaigns[j].id = reply.body.campaigns[k].id => j = k

\* The diagnostic handler is past its list requests, none of which failed.
ListAllDone ==
    /\ req.op = ListAllOp
    /\ provider.configured
    /\ work.pc = "done"
    /\ ~work.page_raised

\* The checked ids whose direct fetch failed, by position, and what failed.
FailedChecks == {k \in 1..Len(work.answers) : work.answers[k] # NoFault}

ErrorOfCheck(k) == HandleResponse(work.answers[k], Text.GetCampaign).text

PagedIds == ListedIdsOf(Searched(work.all_campaigns_raw, req.search))

\* The ids of which a direct fetch succeeded.
FetchedIds == {work.ids_to_check[k] : k \in (1..Len(work.answers)) \ FailedChecks}

\* The response reports the failed checks; for an id in excused the record of
\* the id in campaigns need not be the placeholder.
ReportsFailedChecks(excused) ==
    /\ reply.kind = "http" /\ reply.status = OkStatus
    /\ ("check_errors" \in DOMAIN reply.body) <=> (FailedChecks # {})
    /\ FailedChecks # {} =>
          /\ Len(reply.body.check_errors) = Cardinality(FailedChecks)
          /\ \A k \in FailedChecks :
                LET id == work.ids_to_check[k] IN
                /\ \E j \in 1..Len(reply.body.check_errors) :
                      /\ reply.body.check_errors[j].id = id
                      /\ reply.body.check_errors[j].error = ErrorOfCheck(k)
                /\ \E j \in 1..Len(reply.body.campaigns) :
                      LET c == reply.body.campaigns[j] IN
                      /\ c.id = id
                      /\ id \notin excused =>
                            /\ c.status = "NOT_FOUND"
                            /\ c.sendDate = <<>>
                            /\ \E f \in FailedChecks :
                                  c.name = Text.NotFoundOpen \o ErrorOfCheck(f) \o <<"]">>

\* C25: a checked id whose direct fetch fails does not fail
\* GET /campaigns-list-all: the response has in check_errors one entry per
\* failure with the id and the error text, and in campaigns a record of that
\* id, the NOT_FOUND placeholder unless a campaign of the pages has the id;
\* check_errors is in the response exactly when a check failed.
C25_FailedCheckIsReported ==
    ListAllDone => ReportsFailedChecks(PagedIds)

\* C25 as the handler has it: the record of the id is the placeholder unless
\* a campaign of the pages has the id or another check of the same id fetched
\* the campaign.
C25_FailedCheckIsReportedUnlessFetched ==
    ListAllDone => ReportsFailedChecks(PagedIds \cup FetchedIds)

\* Ids 9 and 2 are checked, the provider holds 2 and not 9: the placeholder of
\* 9 is in the list next to campaign 2, with the one error entry of 9.
C25_Witness ==
    /\ ListAllDone
    /\ work.ids_to_check = << <<"9">>, <<"2">> >>
    /\ FailedChecks = {1}
    /\ Len(reply.body.check_errors) = 1
    /\ \E j, k \in 1..Len(reply.body.campaigns) :
          /\ reply.body.campaigns[j].id = <<"9">>
          /\ reply.body.campaigns[j].status = "NOT_FOUND"
          /\ reply.body.campaigns[k].id = <<"2">>
          /\ reply.body.campaigns[k].status # "NOT_FOUND"

\* The answers of the failed checks, in the order of the checks.
FailedAnswers ==
    LET IsFault(a) == a # NoFault IN SelectSeq(work.answers, IsFault)

\* C26: the http_status of the entry of a check that failed with an HTTP
\* status is the numeral of that status.
C26_StatusIsTheNumeral ==
    (req.op = ListAllOp /\ work.pc # "idle") =>
        \A j \in 1..Len(work.check_errors) :
            ~FailedAnswers[j].transport =>
                work.check_errors[j].http_status = Digits(FailedAnswers[j].status)

\* C27: with a search term every campaign of the list returned by
\* GET /campaigns-list-all has the term in its name, upper and lower case
\* taken as equal, the checked ones as well as those of the pages.
C27_SearchHoldsForEveryEntry ==
    (Listing /\ req.search # <<>>) =>
        \A j \in 1..Len(reply.body.campaigns) :
            IsSubstring(Lower(req.search), Lower(reply.body.campaigns[j].name))

====
